---------------------------- MODULE Spec2Model ----------------------------
(***************************************************************************)
(* Taxonomy core of unikmer (taxonomy.go): the parent map with its merge   *)
(* map, and the LCA query with its optional result cache.                  *)
(*                                                                         *)
(* A Taxonomy value is the variables Nodes, DelNodes, MergeNodes,          *)
(* taxid2rankid, ranks, hasRanks, hasDelNodes, hasMergeNodes, rootNode,    *)
(* maxTaxid, cacheLCA and lcaCache (the exported set Ranks is the set of   *)
(* elements of ranks).  Each caller of LCA is a record in `call`: the      *)
(* arguments and locals of Taxonomy.LCA and the position in its body.  One *)
(* iteration of each of the two upward walks is one step.  `load` is the   *)
(* running invocation of a builder or loader: its arguments, the lines of  *)
(* its file, and its locals; one line of the file is one step.  `pk` is a  *)
(* pair of calls of pack2uint32.                                           *)
(*                                                                         *)
(* Spec       one caller, the cache off, on any parent map without a cycle *)
(*            (parents may dangle) and any merge map;                      *)
(* SpecCache  one caller on a store built from a well-formed dump, the     *)
(*            cache switched on between two calls;                         *)
(* SpecShared several callers on such a store, the cache on;               *)
(* SpecBuild  NewTaxonomy or NewTaxonomyWithRank on a short dump of        *)
(*            three-column records;                                        *)
(* SpecRanks  NewTaxonomyWithRank on a long dump, around the limit on the  *)
(*            number of ranks;                                             *)
(* SpecLoad   each of the four loaders on lines of any shape, with any     *)
(*            column arguments;                                            *)
(* SpecPack   pack2uint32 on two pairs of taxids;                          *)
(* SpecEnable one caller, CacheLCA called at any moment;                   *)
(* SpecStale  one caller, the cache, and LoadMergedNodes between calls;    *)
(* SpecDeleted the same query before and after LoadDeletedNodes;           *)
(* SpecReload the loaders on a Taxonomy that was loaded before.            *)
(***************************************************************************)
EXTENDS Integers, Sequences, FiniteSets, TLC

VARIABLES Nodes, DelNodes, MergeNodes, taxid2rankid, ranks, hasRanks, hasDelNodes,
          hasMergeNodes, rootNode, maxTaxid, cacheLCA, lcaCache, call, load, pk

vars == <<Nodes, DelNodes, MergeNodes, taxid2rankid, ranks, hasRanks, hasDelNodes,
          hasMergeNodes, rootNode, maxTaxid, cacheLCA, lcaCache, call, load, pk>>

\* the fields of the Taxonomy other than the cache, and the loader and packer
store == <<Nodes, DelNodes, MergeNodes, taxid2rankid, ranks, hasRanks, hasDelNodes,
           hasMergeNodes, rootNode, maxTaxid, cacheLCA, load, pk>>

(***************************************************************************)
(* Bounds of the model.                                                    *)
(***************************************************************************)
\* taxids are 0..MaxId; 0 is the "unknown" sentinel
MaxId == 4
\* at most this many keys in the parent map
MaxNodes == 4
\* at most this many entries in the merge map
MaxMerged == 2
\* width in bits of a taxid in the model (uint32 in the source)
TaxidBits == 3
\* callers of LCA on the shared store
NumCallers == 2
\* the stores of SpecCache and SpecShared: keys of the parent map, entries of the
\* merge map, and the largest taxid
MaxSharedNodes == 3
MaxSharedMerged == 1
MaxSharedId == 3
\* a walk is followed for at most this many iterations (more than MaxNodes + 1)
MaxIter == 6

\* the dumps of SpecBuild: at most MaxRecords records, over taxids 1..MaxBuildId and
\* MaxRankTexts rank names
MaxRecords == 3
MaxBuildId == 2
MaxRankTexts == 2
\* the lines of SpecLoad have at most MaxFields fields, and columns are 0..MaxFields
MaxFields == 2
\* the dumps of SpecRanks have from MaxRanks - RankSlack to MaxRanks + RankSlack rank names
RankSlack == 1
\* the files of SpecDeleted have at most MaxDeleted lines
MaxDeleted == 2
\* the limit on the number of ranks of NewTaxonomyWithRank
MaxRanks == 255

Callers == 1..NumCallers

\* the map with no entry (a nil or empty Go map)
EmptyMap == [x \in {} |-> 0]

\* pack2uint32 without the ordering of its arguments
pack2uint32_Unordered(a, b) == a * (2 ^ TaxidBits) + b

\* pack2uint32 losing the low word
pack2uint32_HighOnly(a, b) ==
    IF a < b THEN a * (2 ^ TaxidBits)
             ELSE b * (2 ^ TaxidBits)

(***************************************************************************)
(* pack2uint32: the smaller taxid in the high word, the larger in the low  *)
(* word of one key.  A word is TaxidBits wide here, 32 in the source.      *)
(***************************************************************************)
pack2uint32(a, b) ==
    IF a < b THEN a * (2 ^ TaxidBits) + b
             ELSE b * (2 ^ TaxidBits) + a

\* Lookup following the merge map a second hop when the first target is absent too
\* the lookup missing every taxid of the delete set
Lookup_SkipsDeleted(child) ==
    IF hasDelNodes /\ child \in DelNodes
    THEN [ok |-> FALSE, child |-> child, parent |-> 0]
    ELSE IF child \in DOMAIN Nodes
    THEN [ok |-> TRUE, child |-> child, parent |-> Nodes[child]]
    ELSE IF hasMergeNodes /\ child \in DOMAIN MergeNodes
         THEN LET newTaxid == MergeNodes[child]
              IN  IF newTaxid \in DOMAIN Nodes
                  THEN [ok |-> TRUE, child |-> newTaxid, parent |-> Nodes[newTaxid]]
                  ELSE [ok |-> FALSE, child |-> newTaxid, parent |-> 0]
         ELSE [ok |-> FALSE, child |-> child, parent |-> 0]

Lookup_Transitive(child) ==
    LET hop(x) == IF x \notin DOMAIN Nodes /\ hasMergeNodes /\ x \in DOMAIN MergeNodes
                  THEN MergeNodes[x] ELSE x
        c1 == hop(child)
        c2 == hop(c1)
    IN  IF c2 \in DOMAIN Nodes
        THEN [ok |-> TRUE, child |-> c2, parent |-> Nodes[c2]]
        ELSE [ok |-> FALSE, child |-> c2, parent |-> 0]

(***************************************************************************)
(* The lookup at the head of both walks: t.Nodes[child]; on a miss, one    *)
(* substitution through t.MergeNodes when a merge map is loaded, and the   *)
(* lookup again.  ok is the Go `flag` (or the first `ok`).                 *)
(***************************************************************************)
Lookup(child) ==
    IF child \in DOMAIN Nodes
    THEN [ok |-> TRUE, child |-> child, parent |-> Nodes[child]]
    ELSE IF hasMergeNodes /\ child \in DOMAIN MergeNodes
         THEN LET newTaxid == MergeNodes[child]
              IN  IF newTaxid \in DOMAIN Nodes
                  THEN [ok |-> TRUE, child |-> newTaxid, parent |-> Nodes[newTaxid]]
                  ELSE [ok |-> FALSE, child |-> newTaxid, parent |-> 0]
         ELSE [ok |-> FALSE, child |-> child, parent |-> 0]

\* a caller outside LCA
Idle == [pc |-> "idle", a |-> 0, b |-> 0, query |-> 0, child |-> 0,
         lineA |-> <<>>, mA |-> {}, itA |-> 0, itB |-> 0,
         ret |-> 0, store |-> FALSE]

\* return v; store says whether the exit is one that writes the cache
Exit(s, v, st) == [s EXCEPT !.pc = "done", !.ret = v, !.store = st]

\* Enter without the "a == b" fast path
Enter_NoEqualityTest(a, b) ==
    LET s == [Idle EXCEPT !.a = a, !.b = b]
    IN  IF a = 0 \/ b = 0 THEN Exit(s, 0, FALSE)
        ELSE [s EXCEPT !.pc = "check"]

(***************************************************************************)
(* The fast paths of LCA(a, b).                                            *)
(***************************************************************************)
Enter(a, b) ==
    LET s == [Idle EXCEPT !.a = a, !.b = b]
    IN  IF a = 0 \/ b = 0 THEN Exit(s, 0, FALSE)
        ELSE IF a = b THEN Exit(s, a, FALSE)
        ELSE [s EXCEPT !.pc = "check"]

(***************************************************************************)
(* The cache check, then the set-up of the first walk.  enabled is the     *)
(* value read from t.cacheLCA, cache the contents of t.lcaCache.           *)
(***************************************************************************)
Check_NoHit(s, enabled, cache) ==
    LET query == IF enabled THEN pack2uint32(s.a, s.b) ELSE 0
        s1 == [s EXCEPT !.query = query]
    IN  [s1 EXCEPT !.pc = "walkA", !.child = s.a, !.lineA = <<>>, !.mA = {}]

Check(s, enabled, cache) ==
    LET query == IF enabled THEN pack2uint32(s.a, s.b) ELSE 0
        s1 == [s EXCEPT !.query = query]
    IN  IF enabled /\ query \in DOMAIN cache
        THEN Exit(s1, cache[query], FALSE)
        ELSE [s1 EXCEPT !.pc = "walkA", !.child = s.a, !.lineA = <<>>, !.mA = {}]

\* StepA without the "parent == b" short-circuit
StepA_NoShortCircuit(s) ==
    LET r == Lookup(s.child)
        n == [s EXCEPT !.itA = @ + 1]
    IN  IF ~r.ok THEN Exit(n, 0, TRUE)
        ELSE IF r.parent = r.child
             THEN [n EXCEPT !.lineA = Append(@, r.parent),
                            !.mA = @ \cup {r.parent},
                            !.pc = "walkB", !.child = s.b]
        ELSE [n EXCEPT !.lineA = Append(@, r.parent),
                       !.mA = @ \cup {r.parent},
                       !.child = r.parent]

\* StepA leaving the loop on a missing node as it does at the root
StepA_MissingBreaks(s) ==
    LET r == Lookup(s.child)
        n == [s EXCEPT !.itA = @ + 1]
    IN  IF ~r.ok \/ r.parent = r.child
        THEN [n EXCEPT !.lineA = Append(@, r.parent),
                       !.mA = @ \cup {r.parent},
                       !.pc = "walkB", !.child = s.b]
        ELSE IF r.parent = s.b THEN Exit(n, s.b, TRUE)
        ELSE [n EXCEPT !.lineA = Append(@, r.parent),
                       !.mA = @ \cup {r.parent},
                       !.child = r.parent]

(***************************************************************************)
(* One iteration of the walk from a to the root.                           *)
(***************************************************************************)
StepA(s) ==
    LET r == Lookup(s.child)
        n == [s EXCEPT !.itA = @ + 1]
    IN  IF ~r.ok THEN Exit(n, 0, TRUE)
        ELSE IF r.parent = r.child
             THEN [n EXCEPT !.lineA = Append(@, r.parent),
                            !.mA = @ \cup {r.parent},
                            !.pc = "walkB", !.child = s.b]
        ELSE IF r.parent = s.b THEN Exit(n, s.b, TRUE)
        ELSE [n EXCEPT !.lineA = Append(@, r.parent),
                       !.mA = @ \cup {r.parent},
                       !.child = r.parent]

\* StepB without the membership test in A's set
StepB_NoSetTest(s) ==
    LET r == Lookup(s.child)
        n == [s EXCEPT !.itB = @ + 1]
    IN  IF ~r.ok THEN Exit(n, 0, TRUE)
        ELSE IF r.parent = r.child THEN Exit(n, rootNode, FALSE)
        ELSE IF r.parent = s.a THEN Exit(n, s.a, TRUE)
        ELSE [n EXCEPT !.child = r.parent]

\* StepB without the "parent == a" short-circuit
StepB_NoShortCircuit(s) ==
    LET r == Lookup(s.child)
        n == [s EXCEPT !.itB = @ + 1]
    IN  IF ~r.ok THEN Exit(n, 0, TRUE)
        ELSE IF r.parent = r.child THEN Exit(n, rootNode, FALSE)
        ELSE IF r.parent \in s.mA THEN Exit(n, r.parent, TRUE)
        ELSE [n EXCEPT !.child = r.parent]

(***************************************************************************)
(* One iteration of the walk from b upward; leaving the loop at the root   *)
(* returns t.rootNode.                                                     *)
(***************************************************************************)
StepB(s) ==
    LET r == Lookup(s.child)
        n == [s EXCEPT !.itB = @ + 1]
    IN  IF ~r.ok THEN Exit(n, 0, TRUE)
        ELSE IF r.parent = r.child THEN Exit(n, rootNode, FALSE)
        ELSE IF r.parent = s.a THEN Exit(n, s.a, TRUE)
        ELSE IF r.parent \in s.mA THEN Exit(n, r.parent, TRUE)
        ELSE [n EXCEPT !.child = r.parent]

\* the store writing the taxid the walk stands on instead of the result
CacheAfter_Replaces(s, enabled, cache) ==
    IF s.pc = "done" /\ s.store /\ enabled THEN (s.query :> s.ret) ELSE cache

CacheAfter_StoresChild(s, enabled, cache) ==
    IF s.pc = "done" /\ s.store /\ enabled
    THEN (s.query :> s.child) @@ cache
    ELSE cache

\* t.lcaCache.Store(query, ret), guarded by t.cacheLCA, at the exits that store
CacheAfter(s, enabled, cache) ==
    IF s.pc = "done" /\ s.store /\ enabled
    THEN (s.query :> s.ret) @@ cache
    ELSE cache

(***************************************************************************)
(* LCA(a, b) run to its return on the store as it is, the cache disabled:  *)
(* the steps above composed.  A walk still going after MaxIter iterations  *)
(* is left where it stands (pc is not "done").                             *)
(***************************************************************************)
RECURSIVE Run(_)
Run(s) ==
    IF s.pc = "check" THEN Run(Check(s, FALSE, EmptyMap))
    ELSE IF s.pc = "walkA" /\ s.itA < MaxIter THEN Run(StepA(s))
    ELSE IF s.pc = "walkB" /\ s.itB < MaxIter THEN Run(StepB(s))
    ELSE s

LCA(a, b) == Run(Enter(a, b))

(***************************************************************************)
(* Actions.                                                                *)
(***************************************************************************)
\* caller t calls LCA(a, b) with taxids up to maxId
Call(t, maxId) ==
    /\ call[t].pc = "idle"
    /\ \E a \in 0..maxId, b \in 0..maxId : call' = [call EXCEPT ![t] = Enter(a, b)]
    /\ UNCHANGED <<store, lcaCache>>

CacheCheck(t) ==
    /\ call[t].pc = "check"
    /\ call' = [call EXCEPT ![t] = Check(call[t], cacheLCA, lcaCache)]
    /\ UNCHANGED <<store, lcaCache>>

WalkA(t) ==
    /\ call[t].pc = "walkA"
    /\ call[t].itA < MaxIter
    /\ call' = [call EXCEPT ![t] = StepA(call[t])]
    /\ lcaCache' = CacheAfter(StepA(call[t]), cacheLCA, lcaCache)
    /\ UNCHANGED store

WalkB(t) ==
    /\ call[t].pc = "walkB"
    /\ call[t].itB < MaxIter
    /\ call' = [call EXCEPT ![t] = StepB(call[t])]
    /\ lcaCache' = CacheAfter(StepB(call[t]), cacheLCA, lcaCache)
    /\ UNCHANGED store

\* the caller takes the result
Return(t) ==
    /\ call[t].pc = "done"
    /\ call' = [call EXCEPT ![t] = Idle]
    /\ UNCHANGED <<store, lcaCache>>

(***************************************************************************)
(* Stores.  A parent map is any map on at most n keys without a cycle      *)
(* other than self-loops: parents may dangle and there may be no or        *)
(* several self-loops.  rootNode is a self-loop of the map, 0 without one. *)
(* The merge map is keyed by taxids that left the parent map: LCA looks a  *)
(* taxid up in MergeNodes only after missing it in Nodes.                  *)
(***************************************************************************)
RECURSIVE Climbs(_, _, _)
\* following parent pointers from x for at most n hops ends at a self-loop or off the map
Climbs(nodes, x, n) ==
    IF x \notin DOMAIN nodes \/ nodes[x] = x THEN TRUE
    ELSE IF n = 0 THEN FALSE
    ELSE Climbs(nodes, nodes[x], n - 1)

Acyclic(nodes) == \A x \in DOMAIN nodes : Climbs(nodes, x, Cardinality(DOMAIN nodes))

SelfLoops(nodes) == {x \in DOMAIN nodes : nodes[x] = x}

ParentMaps(ids, n) ==
    {nodes \in UNION {[K -> ids] : K \in {K \in SUBSET ids : Cardinality(K) <= n}} :
        Acyclic(nodes)}

MergeMaps(ids, nodes, m) ==
    UNION {[M -> ids] : M \in {M \in SUBSET (ids \ DOMAIN nodes) : Cardinality(M) <= m}}

\* the parent map of a well-formed dump: one self-loop, no dangling parent, no other cycle
WellFormed(nodes) ==
    /\ Cardinality(SelfLoops(nodes)) = 1
    /\ \A x \in DOMAIN nodes : nodes[x] \in DOMAIN nodes
    /\ Acyclic(nodes)

\* the largest element of a set of taxids, 0 for the empty set
MaxOf(S) == IF S = {} THEN 0 ELSE CHOOSE x \in S : \A y \in S : y <= x

\* no builder or loader is running
NoLoad == [fn |-> "none", cols |-> <<>>, file |-> <<>>, pos |-> 0, status |-> "idle",
           err |-> "", nodes |-> EmptyMap, root |-> 0, maxTaxid |-> 0,
           taxid2rankid |-> EmptyMap, ranks |-> <<>>, rank2rankid |-> EmptyMap,
           m |-> EmptyMap, d |-> {}]

\* no call of pack2uint32 is made
NoPack == [a |-> 0, b |-> 0, c |-> 0, d |-> 0, done |-> FALSE, k1 |-> 0, k2 |-> 0]

\* taxids 1..maxId, at most n keys in the parent map and m in the merge map; built by
\* NewTaxonomy, so without ranks and with the largest key as maxTaxid
InitTaxonomy(maxId, n, m) ==
    /\ Nodes \in ParentMaps(1..maxId, n)
    /\ rootNode \in (IF SelfLoops(Nodes) = {} THEN {0} ELSE SelfLoops(Nodes))
    /\ hasMergeNodes \in BOOLEAN
    /\ MergeNodes \in (IF hasMergeNodes THEN MergeMaps(1..maxId, Nodes, m) ELSE {EmptyMap})
    /\ maxTaxid = MaxOf(DOMAIN Nodes)
    /\ DelNodes = {} /\ hasDelNodes = FALSE
    /\ taxid2rankid = EmptyMap /\ ranks = <<>> /\ hasRanks = FALSE

\* such a Taxonomy with no loader running
InitStore(maxId, n, m) ==
    /\ InitTaxonomy(maxId, n, m)
    /\ load = NoLoad
    /\ pk = NoPack

(***************************************************************************)
(* Spec: one caller queries a store built without the cache.               *)
(***************************************************************************)
Init ==
    /\ InitStore(MaxId, MaxNodes, MaxMerged)
    /\ cacheLCA = FALSE
    /\ lcaCache = EmptyMap
    /\ call = [t \in Callers |-> Idle]

Next ==
    \/ Call(1, MaxId)
    \/ CacheCheck(1)
    \/ WalkA(1)
    \/ WalkB(1)
    \/ Return(1)

Spec == Init /\ [][Next]_vars

(***************************************************************************)
(* SpecCache: one caller queries a store built from a well-formed dump and *)
(* may switch the cache on between two calls.                              *)
(***************************************************************************)
CacheLCA ==
    /\ cacheLCA' = TRUE
    /\ UNCHANGED <<Nodes, DelNodes, MergeNodes, taxid2rankid, ranks, hasRanks, hasDelNodes,
                   hasMergeNodes, rootNode, maxTaxid, lcaCache, call, load, pk>>

InitCache ==
    /\ InitStore(MaxSharedId, MaxSharedNodes, MaxSharedMerged)
    /\ WellFormed(Nodes)
    /\ cacheLCA = FALSE
    /\ lcaCache = EmptyMap
    /\ call = [t \in Callers |-> Idle]

NextCache ==
    \/ (call[1].pc = "idle" /\ ~cacheLCA /\ CacheLCA)
    \/ Call(1, MaxSharedId)
    \/ CacheCheck(1)
    \/ WalkA(1)
    \/ WalkB(1)
    \/ Return(1)

SpecCache == InitCache /\ [][NextCache]_vars

(***************************************************************************)
(* SpecShared: the callers query one shared store, built from a            *)
(* well-formed dump; CacheLCA was called before the store was shared.      *)
(***************************************************************************)
InitShared ==
    /\ InitStore(MaxSharedId, MaxSharedNodes, MaxSharedMerged)
    /\ WellFormed(Nodes)
    /\ cacheLCA = TRUE
    /\ lcaCache = EmptyMap
    /\ call = [t \in Callers |-> Idle]

NextShared ==
    \E t \in Callers :
        \/ Call(t, MaxSharedId)
        \/ CacheCheck(t)
        \/ WalkA(t)
        \/ WalkB(t)
        \/ Return(t)

SpecShared == InitShared /\ [][NextShared]_vars

(***************************************************************************)
(* Text.  A field of a line is an integer naming its text: n >= 0 is the   *)
(* decimal numeral of n, EmptyText the empty text, Word(k) a word that is  *)
(* not a numeral.  A line is the sequence of its tab-separated fields.     *)
(***************************************************************************)
EmptyText == 0 - 1

Word(k) == 0 - (k + 1)

\* strconv.Atoi on a field
Atoi(f) == [ok |-> f >= 0, n |-> f]

\* strings.TrimSpace on a line: leading and trailing empty fields go with their tabs
TrimSpace(line) ==
    LET full == {i \in 1..Len(line) : line[i] # EmptyText}
    IN  IF full = {} THEN <<>>
        ELSE SubSeq(line, CHOOSE i \in full : \A j \in full : i <= j, MaxOf(full))

\* strings.Split(line, "\t"): the empty line has one empty field
Split(line) == IF line = <<>> THEN <<EmptyText>> ELSE line

RECURSIVE minInt(_)
\* minInt over a non-empty sequence of integers
minInt(vals) ==
    IF Len(vals) = 1 THEN vals[1]
    ELSE LET min == minInt(Tail(vals))
         IN  IF vals[1] < min THEN vals[1] ELSE min

\* the larger of oldColumn and newColumn
maxColumns(oldColumn, newColumn) == IF newColumn > oldColumn THEN newColumn ELSE oldColumn

\* conversion of a rank index to uint8
uint8(n) == n % 256

(***************************************************************************)
(* The parse functions of the four loaders.  The result of a line is       *)
(* "skip" (no record, no error), "error" (Atoi failed), "panic" (an index  *)
(* past the last field) or "taxon", a record.  Columns count from 1 here   *)
(* as in the arguments; the source indexes from 0 after decrementing.      *)
(***************************************************************************)
Parsed(kind, child, parent, rank) ==
    [kind |-> kind, child |-> child, parent |-> parent, rank |-> rank]

\* parseFunc of NewTaxonomy; cols = <<childColumn, parentColumn>>
parseNodes(line, cols) ==
    LET trimmed == TrimSpace(line)
        items == Split(trimmed)
        minColumns == minInt(cols)
    IN  IF trimmed = <<>> THEN Parsed("skip", 0, 0, 0)
        ELSE IF Len(items) < minColumns THEN Parsed("skip", 0, 0, 0)
        ELSE IF cols[1] > Len(items) THEN Parsed("panic", 0, 0, 0)
        ELSE IF ~Atoi(items[cols[1]]).ok THEN Parsed("error", 0, 0, 0)
        ELSE IF cols[2] > Len(items) THEN Parsed("panic", 0, 0, 0)
        ELSE IF ~Atoi(items[cols[2]]).ok THEN Parsed("error", 0, 0, 0)
        ELSE Parsed("taxon", Atoi(items[cols[1]]).n, Atoi(items[cols[2]]).n, 0)

\* parseFunc of NewTaxonomyWithRank; cols = <<childColumn, parentColumn, rankColumn>>
parseNodesWithRank(line, cols) ==
    LET trimmed == TrimSpace(line)
        items == Split(trimmed)
        minColumns == minInt(cols)
    IN  IF trimmed = <<>> THEN Parsed("skip", 0, 0, 0)
        ELSE IF Len(items) < minColumns THEN Parsed("skip", 0, 0, 0)
        ELSE IF cols[1] > Len(items) THEN Parsed("panic", 0, 0, 0)
        ELSE IF ~Atoi(items[cols[1]]).ok THEN Parsed("error", 0, 0, 0)
        ELSE IF cols[2] > Len(items) THEN Parsed("panic", 0, 0, 0)
        ELSE IF ~Atoi(items[cols[2]]).ok THEN Parsed("error", 0, 0, 0)
        ELSE IF cols[3] > Len(items) THEN Parsed("panic", 0, 0, 0)
        ELSE Parsed("taxon", Atoi(items[cols[1]]).n, Atoi(items[cols[2]]).n, items[cols[3]])

\* parseFunc of LoadMergedNodes; cols = <<oldColumn, newColumn>>; child is old, parent is new
parseMerged(line, cols) ==
    LET items == Split(TrimSpace(line))
        minColumns == maxColumns(cols[1], cols[2])
    IN  IF Len(items) < minColumns THEN Parsed("skip", 0, 0, 0)
        ELSE IF ~Atoi(items[cols[1]]).ok THEN Parsed("error", 0, 0, 0)
        ELSE IF ~Atoi(items[cols[2]]).ok THEN Parsed("error", 0, 0, 0)
        ELSE Parsed("taxon", Atoi(items[cols[1]]).n, Atoi(items[cols[2]]).n, 0)

\* parseFunc of LoadDeletedNodes; cols = <<column>>; child is the taxid
parseDeleted(line, cols) ==
    LET items == Split(TrimSpace(line))
    IN  IF Len(items) < cols[1] THEN Parsed("skip", 0, 0, 0)
        ELSE IF ~Atoi(items[cols[1]]).ok THEN Parsed("error", 0, 0, 0)
        ELSE Parsed("taxon", Atoi(items[cols[1]]).n, 0, 0)

(***************************************************************************)
(* The builders and loaders.  `load` holds the invocation: fn, the column  *)
(* arguments cols, the lines of the file, the position pos of the next     *)
(* line (0 before the column check), the outcome in status and err, and    *)
(* the locals nodes, root, maxTaxid, taxid2rankid, ranks, rank2rankid of   *)
(* the builders, m of LoadMergedNodes and d of LoadDeletedNodes.  Lines    *)
(* reach the loop in the order of the file.                                *)
(***************************************************************************)
Start(fn, cols, file) == [NoLoad EXCEPT !.fn = fn, !.cols = cols, !.file = file,
                                        !.status = "run"]

Fail(l, status, err) == [l EXCEPT !.status = status, !.err = err]

\* the loop body with the last child as maxTaxid
addTaxon_LastChildAsMax(l, tax) ==
    [l EXCEPT !.nodes = (tax.child :> tax.parent) @@ @,
              !.root = IF tax.child = tax.parent THEN tax.child ELSE @,
              !.maxTaxid = tax.child]

\* the loop body of both builders: parent map, root and maxTaxid
addTaxon(l, tax) ==
    [l EXCEPT !.nodes = (tax.child :> tax.parent) @@ @,
              !.root = IF tax.child = tax.parent THEN tax.child ELSE @,
              !.maxTaxid = IF tax.child > @ THEN tax.child ELSE @]

\* the rank assignment leaving the taxid's rank alone when the rank is known
addRank_KnownRankIgnored(l, tax) ==
    IF tax.rank \in DOMAIN l.rank2rankid
    THEN IF tax.child \in DOMAIN l.taxid2rankid THEN l
         ELSE [l EXCEPT !.taxid2rankid = (tax.child :> uint8(l.rank2rankid[tax.rank])) @@ @]
    ELSE LET appended == Append(l.ranks, tax.rank)
         IN  IF Len(appended) > MaxRanks
             THEN Fail([l EXCEPT !.ranks = appended], "error", "TooManyRanks")
             ELSE [l EXCEPT !.ranks = appended,
                            !.rank2rankid = (tax.rank :> (Len(appended) - 1)) @@ @,
                            !.taxid2rankid = (tax.child :> uint8(Len(appended) - 1)) @@ @]

\* the rank assignment without the limit on the number of ranks
addRank_NoLimit(l, tax) ==
    IF tax.rank \in DOMAIN l.rank2rankid
    THEN [l EXCEPT !.taxid2rankid = (tax.child :> uint8(l.rank2rankid[tax.rank])) @@ @]
    ELSE LET appended == Append(l.ranks, tax.rank)
         IN  [l EXCEPT !.ranks = appended,
                       !.rank2rankid = (tax.rank :> (Len(appended) - 1)) @@ @,
                       !.taxid2rankid = (tax.child :> uint8(Len(appended) - 1)) @@ @]

\* the rank assignment of NewTaxonomyWithRank; rank ids count from 0
addRank(l, tax) ==
    IF tax.rank \in DOMAIN l.rank2rankid
    THEN [l EXCEPT !.taxid2rankid = (tax.child :> uint8(l.rank2rankid[tax.rank])) @@ @]
    ELSE LET appended == Append(l.ranks, tax.rank)
         IN  IF Len(appended) > MaxRanks
             THEN Fail([l EXCEPT !.ranks = appended], "error", "TooManyRanks")
             ELSE [l EXCEPT !.ranks = appended,
                            !.rank2rankid = (tax.rank :> (Len(appended) - 1)) @@ @,
                            !.taxid2rankid = (tax.child :> uint8(Len(appended) - 1)) @@ @]

\* the loader past the line at its position
Read(l) == [l EXCEPT !.pos = @ + 1]

\* one step of a loader: the column check, then one line of the file, then the return;
\* added is the loader after the loop body on the record of the line
Step(l, legal, parsed, added) ==
    IF l.pos = 0
    THEN IF legal THEN [l EXCEPT !.pos = 1] ELSE Fail(l, "error", "IllegalColumnIndex")
    ELSE IF l.pos > Len(l.file) THEN [l EXCEPT !.status = "ok"]
    ELSE CASE parsed.kind = "skip"  -> Read(l)
           [] parsed.kind = "error" -> Fail(Read(l), "error", "Atoi")
           [] parsed.kind = "panic" -> Fail(Read(l), "panic", "index out of range")
           [] OTHER                 -> added

addTaxonWithRank(l, tax) == addRank(addTaxon(l, tax), tax)

addMerged(l, p) == [l EXCEPT !.m = (p.child :> p.parent) @@ @]

addDeleted(l, p) == [l EXCEPT !.d = @ \cup {p.child}]

\* the line at the position of the loader, if any
Line(l) == IF l.pos \in 1..Len(l.file) THEN l.file[l.pos] ELSE <<>>

StepNewTaxonomy(l) ==
    Step(l, ~(l.cols[1] < 1 \/ l.cols[2] < 1), parseNodes(Line(l), l.cols),
         addTaxon(Read(l), parseNodes(Line(l), l.cols)))

StepNewTaxonomyWithRank(l) ==
    Step(l, ~(l.cols[1] < 1 \/ l.cols[2] < 1 \/ l.cols[3] < 1),
         parseNodesWithRank(Line(l), l.cols),
         addTaxonWithRank(Read(l), parseNodesWithRank(Line(l), l.cols)))

StepLoadMergedNodes(l) ==
    Step(l, ~(l.cols[1] < 1 \/ l.cols[2] < 1), parseMerged(Line(l), l.cols),
         addMerged(Read(l), parseMerged(Line(l), l.cols)))

StepLoadDeletedNodes(l) ==
    Step(l, ~(l.cols[1] < 1), parseDeleted(Line(l), l.cols),
         addDeleted(Read(l), parseDeleted(Line(l), l.cols)))

StepOf(l) ==
    CASE l.fn = "NewTaxonomy"         -> StepNewTaxonomy(l)
      [] l.fn = "NewTaxonomyWithRank" -> StepNewTaxonomyWithRank(l)
      [] l.fn = "LoadMergedNodes"     -> StepLoadMergedNodes(l)
      [] OTHER                        -> StepLoadDeletedNodes(l)

RECURSIVE RunLoad(_)
\* a loader run to its return
RunLoad(l) == IF l.status # "run" THEN l ELSE RunLoad(StepOf(l))

\* NewTaxonomy: one step; the return builds the Taxonomy
NewTaxonomy ==
    /\ load.fn = "NewTaxonomy" /\ load.status = "run"
    /\ load' = StepNewTaxonomy(load)
    /\ IF load'.status = "ok"
       THEN /\ Nodes' = load.nodes /\ rootNode' = load.root /\ maxTaxid' = load.maxTaxid
            /\ taxid2rankid' = EmptyMap /\ ranks' = <<>> /\ hasRanks' = FALSE
       ELSE UNCHANGED <<Nodes, rootNode, maxTaxid, taxid2rankid, ranks, hasRanks>>
    /\ UNCHANGED <<DelNodes, MergeNodes, hasDelNodes, hasMergeNodes, cacheLCA, lcaCache, call, pk>>

\* NewTaxonomyWithRank: one step; the return builds the Taxonomy
NewTaxonomyWithRank ==
    /\ load.fn = "NewTaxonomyWithRank" /\ load.status = "run"
    /\ load' = StepNewTaxonomyWithRank(load)
    /\ IF load'.status = "ok"
       THEN /\ Nodes' = load.nodes /\ rootNode' = load.root /\ maxTaxid' = load.maxTaxid
            /\ taxid2rankid' = load.taxid2rankid /\ ranks' = load.ranks /\ hasRanks' = TRUE
       ELSE UNCHANGED <<Nodes, rootNode, maxTaxid, taxid2rankid, ranks, hasRanks>>
    /\ UNCHANGED <<DelNodes, MergeNodes, hasDelNodes, hasMergeNodes, cacheLCA, lcaCache, call, pk>>

\* LoadMergedNodes installing the map after every line
LoadMergedNodes_InstallsEachRecord ==
    /\ load.fn = "LoadMergedNodes" /\ load.status = "run"
    /\ load' = StepLoadMergedNodes(load)
    /\ MergeNodes' = load'.m /\ hasMergeNodes' = TRUE
    /\ UNCHANGED <<Nodes, DelNodes, taxid2rankid, ranks, hasRanks, hasDelNodes, rootNode,
                   maxTaxid, cacheLCA, lcaCache, call, pk>>

\* LoadMergedNodes: one step; the return installs the merge map
LoadMergedNodes ==
    /\ load.fn = "LoadMergedNodes" /\ load.status = "run"
    /\ load' = StepLoadMergedNodes(load)
    /\ IF load'.status = "ok"
       THEN MergeNodes' = load.m /\ hasMergeNodes' = TRUE
       ELSE UNCHANGED <<MergeNodes, hasMergeNodes>>
    /\ UNCHANGED <<Nodes, DelNodes, taxid2rankid, ranks, hasRanks, hasDelNodes, rootNode,
                   maxTaxid, cacheLCA, lcaCache, call, pk>>

\* LoadDeletedNodes: one step; the return installs the set of deleted taxids
LoadDeletedNodes ==
    /\ load.fn = "LoadDeletedNodes" /\ load.status = "run"
    /\ load' = StepLoadDeletedNodes(load)
    /\ IF load'.status = "ok"
       THEN DelNodes' = load.d /\ hasDelNodes' = TRUE
       ELSE UNCHANGED <<DelNodes, hasDelNodes>>
    /\ UNCHANGED <<Nodes, MergeNodes, taxid2rankid, ranks, hasRanks, hasMergeNodes, rootNode,
                   maxTaxid, cacheLCA, lcaCache, call, pk>>

\* Taxonomy.Rank: the panic, or the rank text ("" for a taxid without rank id)
Rank(taxid) ==
    IF ~hasRanks THEN [panic |-> TRUE, rank |-> EmptyText]
    ELSE IF taxid \in DOMAIN taxid2rankid
         THEN IF taxid2rankid[taxid] + 1 \in 1..Len(ranks)
              THEN [panic |-> FALSE, rank |-> ranks[taxid2rankid[taxid] + 1]]
              ELSE [panic |-> TRUE, rank |-> EmptyText]
    ELSE [panic |-> FALSE, rank |-> EmptyText]

\* Taxonomy.MaxTaxid
MaxTaxid == maxTaxid

\* the zero Taxonomy, no caller of LCA
NoTaxonomy ==
    /\ Nodes = EmptyMap /\ rootNode = 0 /\ maxTaxid = 0
    /\ MergeNodes = EmptyMap /\ hasMergeNodes = FALSE
    /\ DelNodes = {} /\ hasDelNodes = FALSE
    /\ taxid2rankid = EmptyMap /\ ranks = <<>> /\ hasRanks = FALSE
    /\ cacheLCA = FALSE /\ lcaCache = EmptyMap
    /\ call = [t \in Callers |-> Idle]

(***************************************************************************)
(* SpecBuild: a builder reads a dump of at most MaxRecords lines of three  *)
(* fields, child, parent and rank, with columns 1, 2 and 3.                *)
(***************************************************************************)
Records ==
    {<<c, p, Word(r)>> : c \in 1..MaxBuildId, p \in 1..MaxBuildId, r \in 1..MaxRankTexts}

Dumps == UNION {[1..n -> Records] : n \in 0..MaxRecords}

InitBuild ==
    /\ NoTaxonomy
    /\ pk = NoPack
    /\ \E file \in Dumps :
          load \in {Start("NewTaxonomy", <<1, 2>>, file),
                    Start("NewTaxonomyWithRank", <<1, 2, 3>>, file)}

NextBuild ==
    \/ NewTaxonomy
    \/ NewTaxonomyWithRank

SpecBuild == InitBuild /\ [][NextBuild]_vars

(***************************************************************************)
(* SpecRanks: NewTaxonomyWithRank reads a dump with n rank names, each on  *)
(* d consecutive records, for n around MaxRanks.                           *)
(***************************************************************************)
LongDump(n, d) ==
    [k \in 1..(n * d) |-> <<((k - 1) % MaxBuildId) + 1, 1, Word(((k - 1) \div d) + 1)>>]

InitRanks ==
    /\ NoTaxonomy
    /\ pk = NoPack
    /\ \E n \in (MaxRanks - RankSlack)..(MaxRanks + RankSlack), d \in 1..2 :
          load = Start("NewTaxonomyWithRank", <<1, 2, 3>>, LongDump(n, d))

NextRanks == NewTaxonomyWithRank

SpecRanks == InitRanks /\ [][NextRanks]_vars

(***************************************************************************)
(* SpecLoad: each loader, with any column arguments in 0..MaxFields, reads *)
(* a file of one line of any shape, alone or before or after a line whose  *)
(* fields are all the numeral 1.                                           *)
(***************************************************************************)
FieldTexts == {EmptyText, 1, Word(1)}

Lines == UNION {[1..n -> FieldTexts] : n \in 1..MaxFields}

GoodLine == [i \in 1..MaxFields |-> 1]

LoadFiles == UNION {{<<line>>, <<line, GoodLine>>, <<GoodLine, line>>} : line \in Lines}

Arity(fn) ==
    CASE fn = "NewTaxonomyWithRank" -> 3
      [] fn = "LoadDeletedNodes"    -> 1
      [] OTHER                      -> 2

Loaders == {"NewTaxonomy", "NewTaxonomyWithRank", "LoadMergedNodes", "LoadDeletedNodes"}

InitLoad ==
    /\ NoTaxonomy
    /\ pk = NoPack
    /\ \E fn \in Loaders, file \in LoadFiles :
          \E cols \in [1..Arity(fn) -> 0..MaxFields] : load = Start(fn, cols, file)

NextLoad ==
    \/ NewTaxonomy
    \/ NewTaxonomyWithRank
    \/ LoadMergedNodes
    \/ LoadDeletedNodes

SpecLoad == InitLoad /\ [][NextLoad]_vars

(***************************************************************************)
(* SpecPack: pack2uint32 on the pairs (a, b) and (c, d) of taxids of       *)
(* TaxidBits bits.                                                         *)
(***************************************************************************)
Words == 0..(2 ^ TaxidBits - 1)

InitPack ==
    /\ NoTaxonomy
    /\ load = NoLoad
    /\ \E a \in Words, b \in Words, c \in Words, d \in Words :
          pk = [NoPack EXCEPT !.a = a, !.b = b, !.c = c, !.d = d]

Pack ==
    /\ ~pk.done
    /\ pk' = [pk EXCEPT !.done = TRUE, !.k1 = pack2uint32(pk.a, pk.b),
                        !.k2 = pack2uint32(pk.c, pk.d)]
    /\ UNCHANGED <<Nodes, DelNodes, MergeNodes, taxid2rankid, ranks, hasRanks, hasDelNodes,
                   hasMergeNodes, rootNode, maxTaxid, cacheLCA, lcaCache, call, load>>

NextPack == Pack

SpecPack == InitPack /\ [][NextPack]_vars

(***************************************************************************)
(* SpecEnable: one caller queries a store built from a well-formed dump;   *)
(* CacheLCA is called at any moment, also while a call of LCA is between   *)
(* its cache check and a store.  The caller reads cacheLCA once at the     *)
(* cache check and again at every store.                                   *)
(***************************************************************************)
InitEnable ==
    /\ InitStore(MaxSharedId, MaxSharedNodes, MaxSharedMerged)
    /\ WellFormed(Nodes)
    /\ cacheLCA = FALSE
    /\ lcaCache = EmptyMap
    /\ call = [t \in Callers |-> Idle]

NextEnable ==
    \/ (~cacheLCA /\ CacheLCA)
    \/ Call(1, MaxSharedId)
    \/ CacheCheck(1)
    \/ WalkA(1)
    \/ WalkB(1)
    \/ Return(1)

SpecEnable == InitEnable /\ [][NextEnable]_vars

(***************************************************************************)
(* SpecStale: one caller queries a store built from a well-formed dump,    *)
(* switches the cache on between two calls, and between two calls          *)
(* LoadMergedNodes loads a file of at most MaxSharedMerged records with    *)
(* columns 1 and 2.                                                        *)
(***************************************************************************)
MergedFiles ==
    UNION {[1..n -> {<<old, new>> : old \in 1..MaxSharedId, new \in 1..MaxSharedId}] :
              n \in 0..MaxSharedMerged}

InitStale ==
    /\ InitTaxonomy(MaxSharedId, MaxSharedNodes, MaxSharedMerged)
    /\ WellFormed(Nodes)
    /\ cacheLCA = FALSE
    /\ lcaCache = EmptyMap
    /\ call = [t \in Callers |-> Idle]
    /\ pk = NoPack
    /\ \E file \in MergedFiles : load = Start("LoadMergedNodes", <<1, 2>>, file)

\* the loader is not between its first and last step
Loaded == load.pos = 0 \/ load.status # "run"

NextStale ==
    \/ (call[1].pc = "idle" /\ ~cacheLCA /\ CacheLCA)
    \/ (Loaded /\ Call(1, MaxSharedId))
    \/ CacheCheck(1)
    \/ WalkA(1)
    \/ WalkB(1)
    \/ Return(1)
    \/ (call[1].pc = "idle" /\ LoadMergedNodes)

SpecStale == InitStale /\ [][NextStale]_vars

(***************************************************************************)
(* SpecDeleted: caller 1 queries a store, then LoadDeletedNodes loads a    *)
(* file of at most MaxDeleted taxids with column 1, then caller 2 makes    *)
(* the query of caller 1 again.  The store is any of the family of Spec    *)
(* over taxids 1..MaxSharedId, the cache off.                              *)
(***************************************************************************)
DeletedFiles ==
    UNION {[1..n -> {<<taxid>> : taxid \in 1..MaxSharedId}] : n \in 0..MaxDeleted}

InitDeleted ==
    /\ InitTaxonomy(MaxSharedId, MaxSharedNodes, MaxSharedMerged)
    /\ cacheLCA = FALSE
    /\ lcaCache = EmptyMap
    /\ call = [t \in Callers |-> Idle]
    /\ pk = NoPack
    /\ \E file \in DeletedFiles : load = Start("LoadDeletedNodes", <<1>>, file)

NextDeleted ==
    \/ (load.pos = 0 /\ Call(1, MaxSharedId))
    \/ (call[1].pc = "done" /\ LoadDeletedNodes)
    \/ (load.status = "ok" /\ Call(2, MaxSharedId)
           /\ call'[2].a = call[1].a /\ call'[2].b = call[1].b)
    \/ \E t \in {1, 2} : CacheCheck(t) \/ WalkA(t) \/ WalkB(t)

SpecDeleted == InitDeleted /\ [][NextDeleted]_vars

(***************************************************************************)
(* SpecReload: the loaders of SpecLoad, where LoadMergedNodes and          *)
(* LoadDeletedNodes run on a Taxonomy that may hold a merge map and a      *)
(* delete set of an earlier load, of at most one entry each over taxids    *)
(* 1..MaxBuildId.                                                          *)
(***************************************************************************)
EarlierMerged == UNION {[K -> 1..MaxBuildId] : K \in {{}} \cup {{k} : k \in 1..MaxBuildId}}

EarlierDeleted == {{}} \cup {{k} : k \in 1..MaxBuildId}

InitReload ==
    /\ Nodes = EmptyMap /\ rootNode = 0 /\ maxTaxid = 0
    /\ taxid2rankid = EmptyMap /\ ranks = <<>> /\ hasRanks = FALSE
    /\ cacheLCA = FALSE /\ lcaCache = EmptyMap
    /\ call = [t \in Callers |-> Idle]
    /\ pk = NoPack
    /\ \E fn \in Loaders, file \in LoadFiles :
          \E cols \in [1..Arity(fn) -> 0..MaxFields] : load = Start(fn, cols, file)
    /\ hasMergeNodes \in BOOLEAN
    /\ hasDelNodes \in BOOLEAN
    /\ MergeNodes \in (IF hasMergeNodes THEN EarlierMerged ELSE {EmptyMap})
    /\ DelNodes \in (IF hasDelNodes THEN EarlierDeleted ELSE {{}})
    /\ load.fn \in {"NewTaxonomy", "NewTaxonomyWithRank"} => (~hasMergeNodes /\ ~hasDelNodes)

SpecReload == InitReload /\ [][NextLoad]_vars

(***************************************************************************)
(* Reference notions the claims are stated with, from the parent map       *)
(* alone.                                                                  *)
(***************************************************************************)
RECURSIVE AncSelfN(_, _)
AncSelfN(x, n) ==
    IF x \notin DOMAIN Nodes THEN {}
    ELSE IF Nodes[x] = x \/ n = 0 THEN {x}
    ELSE {x} \cup AncSelfN(Nodes[x], n - 1)

\* the ancestor-or-self chain of x
AncSelf(x) == AncSelfN(x, Cardinality(DOMAIN Nodes))

Depth(x) == Cardinality(AncSelf(x))

\* the deepest node on both ancestor-or-self chains
RefLCA(a, b) ==
    LET common == AncSelf(a) \cap AncSelf(b)
    IN  CHOOSE c \in common : \A d \in common : Depth(d) <= Depth(c)

IsKey(x) == x \in DOMAIN Nodes

\* x left the parent map and the merge map names a taxid for it
IsMerged(x) == ~IsKey(x) /\ hasMergeNodes /\ x \in DOMAIN MergeNodes

\* a call that has returned, with distinct non-zero arguments
Returned(t) == call[t].pc = "done" /\ call[t].a # 0 /\ call[t].b # 0 /\ call[t].a # call[t].b

(***************************************************************************)
(* C1: on a well-formed store, for distinct non-zero a and b that are both *)
(* keys of the parent map, LCA(a, b) is the deepest node on both           *)
(* ancestor-or-self chains (the root when they share only the root).       *)
(***************************************************************************)
C1_DeepestCommonAncestor ==
    \A t \in Callers :
        (Returned(t) /\ WellFormed(Nodes) /\ IsKey(call[t].a) /\ IsKey(call[t].b))
            => call[t].ret = RefLCA(call[t].a, call[t].b)

\* a call returned a common ancestor that is neither argument nor the root
C1_Witness ==
    \E t \in Callers :
        /\ Returned(t) /\ WellFormed(Nodes) /\ IsKey(call[t].a) /\ IsKey(call[t].b)
        /\ call[t].ret = RefLCA(call[t].a, call[t].b)
        /\ call[t].ret \notin {call[t].a, call[t].b, rootNode}
        /\ call[t].itB > 0

(***************************************************************************)
(* C2: ancestor absorption.  On a well-formed store, when one argument is  *)
(* a proper ancestor of the other, LCA returns the ancestor, in whichever  *)
(* position it is passed, the root included.                               *)
(***************************************************************************)
C2_AncestorAbsorption ==
    \A t \in Callers :
        (Returned(t) /\ WellFormed(Nodes) /\ IsKey(call[t].a) /\ IsKey(call[t].b))
            => /\ call[t].a \in AncSelf(call[t].b) => call[t].ret = call[t].a
               /\ call[t].b \in AncSelf(call[t].a) => call[t].ret = call[t].b

\* the ancestor was passed first and is not the root: found by the second walk
C2_Witness ==
    \E t \in Callers :
        /\ Returned(t) /\ WellFormed(Nodes) /\ IsKey(call[t].a) /\ IsKey(call[t].b)
        /\ call[t].a \in AncSelf(call[t].b)
        /\ call[t].a # rootNode
        /\ call[t].itB > 1
        /\ call[t].ret = call[t].a

(***************************************************************************)
(* C3: symmetry.  On a well-formed store, with or without a merge map,     *)
(* LCA(a, b) = LCA(b, a) for all taxids, those absent from the parent map  *)
(* and those that resolve only through the merge map included.             *)
(***************************************************************************)
C3_Symmetry ==
    \A t \in Callers :
        (call[t].pc = "done" /\ WellFormed(Nodes))
            => /\ LCA(call[t].b, call[t].a).pc = "done"
               /\ call[t].ret = LCA(call[t].b, call[t].a).ret

\* a call with a merged first argument returned a taxid
C3_Witness ==
    \E t \in Callers :
        /\ Returned(t) /\ WellFormed(Nodes)
        /\ IsMerged(call[t].a) /\ IsKey(call[t].b)
        /\ call[t].ret # 0
        /\ call[t].ret = LCA(call[t].b, call[t].a).ret


(***************************************************************************)
(* C4: merge fallback.  When a is not in the parent map, merged[a] = a'    *)
(* and a' is in the parent map, LCA(a, b) = LCA(a', b) for every b in the  *)
(* parent map: b = a', b below a', b above a' and b unrelated to a'.       *)
(***************************************************************************)
C4_MergeFallback ==
    \A t \in Callers :
        (/\ call[t].pc = "done" /\ WellFormed(Nodes)
         /\ IsMerged(call[t].a) /\ IsKey(MergeNodes[call[t].a])
         /\ IsKey(call[t].b))
            => call[t].ret = LCA(MergeNodes[call[t].a], call[t].b).ret

RECURSIVE UnresolvedN(_, _)
UnresolvedN(x, n) ==
    LET y == IF IsKey(x) THEN x
             ELSE IF IsMerged(x) /\ IsKey(MergeNodes[x]) THEN MergeNodes[x]
             ELSE 0
    IN  IF y = 0 THEN TRUE
        ELSE IF Nodes[y] = y \/ n = 0 THEN FALSE
        ELSE UnresolvedN(Nodes[y], n - 1)

Unresolved(x) == UnresolvedN(x, MaxIter)

C6_UnresolvedGivesZero ==
    \A t \in Callers :
        (Returned(t) /\ (Unresolved(call[t].a) \/ Unresolved(call[t].b)))
            => call[t].ret = 0

(***************************************************************************)
(* C9: every call terminates.  On a store whose parent map has exactly one *)
(* self-loop and no other cycle (parents may dangle), with any merge map,  *)
(* each walk makes at most one iteration per key of the parent map and one *)
(* more.                                                                   *)
(***************************************************************************)
C9_WalksBounded ==
    \A t \in Callers :
        (Cardinality(SelfLoops(Nodes)) = 1 /\ Acyclic(Nodes))
            => /\ call[t].itA <= Cardinality(DOMAIN Nodes) + 1
               /\ call[t].itB <= Cardinality(DOMAIN Nodes) + 1

(***************************************************************************)
(* C10: merge chains are not followed.  On a well-formed store, when a is  *)
(* absent from the parent map and merged[a] = m is absent too, LCA(a, b)   *)
(* and LCA(b, a) are 0 for every b outside {0, a}, also when merged[m] is  *)
(* in the parent map.                                                      *)
(***************************************************************************)
DeadMerge(x) == IsMerged(x) /\ ~IsKey(MergeNodes[x])

C10_SingleMergeHop ==
    \A t \in Callers :
        (/\ Returned(t) /\ WellFormed(Nodes)
         /\ (DeadMerge(call[t].a) \/ DeadMerge(call[t].b)))
            => call[t].ret = 0

\* merged[a] = m, m absent, merged[m] present in the parent map, b a key
C10_Witness ==
    \E t \in Callers :
        /\ Returned(t) /\ WellFormed(Nodes)
        /\ DeadMerge(call[t].a)
        /\ IsMerged(MergeNodes[call[t].a])
        /\ IsKey(MergeNodes[MergeNodes[call[t].a]])
        /\ IsKey(call[t].b)
        /\ call[t].itA = 1
        /\ call[t].ret = 0


C16_EveryExitStores ==
    \A t \in Callers :
        (Returned(t) /\ cacheLCA /\ call[t].itA > 0)
            => /\ pack2uint32(call[t].a, call[t].b) \in DOMAIN lcaCache
               /\ lcaCache[pack2uint32(call[t].a, call[t].b)] = call[t].ret


(***************************************************************************)
(* Notions of the claims about the builders: the records of a dump of      *)
(* SpecBuild or SpecRanks are its lines, child in field 1, parent in field *)
(* 2 and rank in field 3.                                                  *)
(***************************************************************************)
Built == load.status = "ok" /\ load.fn \in {"NewTaxonomy", "NewTaxonomyWithRank"}

ChildrenOf(file) == {file[i][1] : i \in 1..Len(file)}

\* the rank text of the last record of the dump for taxid t, "" without one
LastRankOf(file, t) ==
    LET at == {i \in 1..Len(file) : file[i][1] = t}
    IN  IF at = {} THEN EmptyText ELSE file[MaxOf(at)][3]

Orders(n) == {f \in [1..n -> 1..n] : \A i \in 1..n, j \in 1..n : f[i] = f[j] => i = j}

Permuted(file, f) == [i \in 1..Len(file) |-> file[f[i]]]

\* the rank text a finished builder holds for taxid t
RankIn(l, t) ==
    IF t \in DOMAIN l.taxid2rankid THEN l.ranks[l.taxid2rankid[t] + 1] ELSE EmptyText

\* what a build of the dump yields: parent map, root, maxTaxid and rank text of each taxon
Yield(l) ==
    <<l.status, l.nodes, l.root, l.maxTaxid,
      [t \in 1..MaxBuildId |-> IF l.fn = "NewTaxonomyWithRank" THEN RankIn(l, t) ELSE EmptyText]>>

(***************************************************************************)
(* C12: on a store built with ranks, Rank(t) is the rank text of the last  *)
(* record of the dump with child t, whatever rank ids were assigned, and   *)
(* the empty text for a t that is no child of the dump; on a store built   *)
(* without ranks Rank(t) panics for every t.                               *)
(***************************************************************************)
C12_RankOfLastRecord ==
    Built =>
        \A t \in 0..(MaxBuildId + 1) :
            IF load.fn = "NewTaxonomyWithRank"
            THEN Rank(t) = [panic |-> FALSE, rank |-> LastRankOf(load.file, t)]
            ELSE Rank(t).panic

\* a taxon with two records of different ranks, the last with a rank first seen on another
\* taxon
C12_Witness ==
    /\ Built /\ load.fn = "NewTaxonomyWithRank"
    /\ \E i \in 1..Len(load.file), j \in 1..Len(load.file), k \in 1..Len(load.file) :
          /\ i < j /\ j < k
          /\ load.file[i][1] = load.file[k][1] /\ load.file[i][3] # load.file[k][3]
          /\ load.file[j][1] # load.file[k][1] /\ load.file[j][3] = load.file[k][3]
          /\ Rank(load.file[k][1]).rank = load.file[k][3]

(***************************************************************************)
(* C13: a store built with ranks has at most 255 ranks, every rank id is   *)
(* in 0..254 and is the index of an entry of the rank list, and the rank   *)
(* list has no duplicate; a dump with 256 or more rank names fails with    *)
(* TooManyRanks and yields no store, one with 255 succeeds.                *)
(***************************************************************************)
RankNamesOf(file) == {file[i][3] : i \in 1..Len(file)}

C13_RankBound ==
    /\ hasRanks =>
          /\ Len(ranks) <= 255
          /\ \A t \in DOMAIN taxid2rankid :
                taxid2rankid[t] \in 0..254 /\ taxid2rankid[t] + 1 \in 1..Len(ranks)
          /\ \A i \in 1..Len(ranks), j \in 1..Len(ranks) : ranks[i] = ranks[j] => i = j
    /\ (load.status # "run" /\ Cardinality(RankNamesOf(load.file)) >= 256) =>
          /\ load.status = "error" /\ load.err = "TooManyRanks"
          /\ ~hasRanks /\ Nodes = EmptyMap
    /\ (load.status # "run" /\ Cardinality(RankNamesOf(load.file)) = 255) =>
          /\ load.status = "ok" /\ hasRanks /\ Len(ranks) = 255

\* a build with exactly 255 rank names succeeded, the last rank id being 254
C13_Witness ==
    /\ load.status = "ok" /\ hasRanks
    /\ Cardinality(RankNamesOf(load.file)) = 255
    /\ \E t \in DOMAIN taxid2rankid : taxid2rankid[t] = 254

(***************************************************************************)
(* C14: in every loader, a line with fewer fields than the largest column  *)
(* argument is skipped silently: a file whose other lines are good loads   *)
(* without error or panic, to the result of the file without the short     *)
(* lines.                                                                  *)
(***************************************************************************)
Short(line, cols) == \E i \in 1..Len(cols) : Len(line) < cols[i]

Outcome(l) == <<l.status, l.nodes, l.root, l.maxTaxid, l.taxid2rankid, l.ranks, l.m, l.d>>

C14_ShortLinesSkipped ==
    ( /\ load.status \in {"ok", "error", "panic"}
      /\ \A i \in 1..Len(load.cols) : load.cols[i] >= 1
      /\ \A i \in 1..Len(load.file) :
            Short(load.file[i], load.cols) \/ load.file[i] = GoodLine )
    => /\ load.status = "ok"
       /\ Outcome(load) =
             Outcome(RunLoad(Start(load.fn, load.cols,
                                   SelectSeq(load.file, LAMBDA line : line = GoodLine))))

(***************************************************************************)
(* C15: after a successful build MaxTaxid() is the largest taxid of the    *)
(* dump, child or parent, so no key and no value of the parent map exceeds *)
(* it.                                                                     *)
(***************************************************************************)
C15_MaxTaxidCoversMap ==
    Built =>
        /\ MaxTaxid = MaxOf(ChildrenOf(load.file) \cup {load.file[i][2] : i \in 1..Len(load.file)})
        /\ \A k \in DOMAIN Nodes : k <= MaxTaxid /\ Nodes[k] <= MaxTaxid

(***************************************************************************)
(* C17: the cache key does not depend on the order of the pair, has the    *)
(* smaller taxid in the high word and the larger in the low word, and two  *)
(* pairs have the same key only if they are the same unordered pair.       *)
(***************************************************************************)
C17_PackUnordered ==
    pk.done =>
        /\ pk.k1 = pack2uint32(pk.b, pk.a)
        /\ pk.k1 \div (2 ^ TaxidBits) = (IF pk.a < pk.b THEN pk.a ELSE pk.b)
        /\ pk.k1 % (2 ^ TaxidBits) = (IF pk.a < pk.b THEN pk.b ELSE pk.a)
        /\ (pk.k1 = pk.k2 => {pk.a, pk.b} = {pk.c, pk.d})

\* the two orders of a pair of different taxids were packed to one key
C17_Witness ==
    /\ pk.done /\ pk.a # pk.b /\ pk.c = pk.b /\ pk.d = pk.a
    /\ pk.k1 = pk.k2

(***************************************************************************)
(* C18: a step of LCA changes no field of the Taxonomy but the cache; with *)
(* the cache off it leaves the cache alone, with the cache on every entry  *)
(* of the cache stays, with its value.                                     *)
(***************************************************************************)
C18_LcaFrame ==
    [][ (call' # call) =>
          /\ UNCHANGED <<Nodes, DelNodes, MergeNodes, taxid2rankid, ranks, hasRanks,
                         hasDelNodes, hasMergeNodes, rootNode, maxTaxid, cacheLCA>>
          /\ (~cacheLCA => lcaCache' = lcaCache)
          /\ \A k \in DOMAIN lcaCache : k \in DOMAIN lcaCache' /\ lcaCache'[k] = lcaCache[k]
      ]_vars

\* a call stored its result next to an entry stored before
C18_Witness ==
    /\ cacheLCA /\ call[1].pc = "done" /\ call[1].store
    /\ call[1].query \in DOMAIN lcaCache
    /\ Cardinality(DOMAIN lcaCache) >= 2

(***************************************************************************)
(* C19: the build of a dump does not depend on the order of its records:   *)
(* every permutation yields the same parent map, root, maxTaxid and rank   *)
(* text of every taxon.                                                    *)
(***************************************************************************)
OrderIndependent ==
    \A f \in Orders(Len(load.file)) :
        Yield(RunLoad(Start(load.fn, load.cols, Permuted(load.file, f)))) = Yield(load)

C19_OrderIndependent_Original == Built => OrderIndependent

\* records of one child agree on parent and rank, and at most one child is its own parent
Consistent(file) ==
    /\ \A i \in 1..Len(file), j \in 1..Len(file) : file[i][1] = file[j][1] => file[i] = file[j]
    /\ Cardinality({file[i][1] : i \in {i \in 1..Len(file) : file[i][1] = file[i][2]}}) <= 1

\* C19, amended: the build of a dump whose records of one child agree, with at most one
\* child that is its own parent, does not depend on the order of its records
C19_OrderIndependent == (Built /\ Consistent(load.file)) => OrderIndependent

\* a consistent dump with a repeated record and a self-loop was built
C19_Witness ==
    /\ Built /\ Consistent(load.file) /\ load.fn = "NewTaxonomyWithRank"
    /\ \E i \in 1..Len(load.file), j \in 1..Len(load.file), k \in 1..Len(load.file) :
          /\ i < j /\ j < k
          /\ load.file[i] = load.file[k] /\ load.file[i] # load.file[j]
          /\ load.file[i][3] # load.file[j][3]
    /\ rootNode # 0 /\ Cardinality(DOMAIN Nodes) >= 2

(***************************************************************************)
(* C20: after a successful build, duplicates allowed, the root is its own  *)
(* parent in the parent map, and is the self-loop of the map when the map  *)
(* has exactly one.                                                        *)
(***************************************************************************)
C20_RootIsSelfLoop ==
    Built =>
        /\ rootNode # 0 => (rootNode \in DOMAIN Nodes /\ Nodes[rootNode] = rootNode)
        /\ Cardinality(SelfLoops(Nodes)) = 1 => rootNode \in SelfLoops(Nodes)


(***************************************************************************)
(* C22: every key of the cache is the key of a pair of different non-zero  *)
(* taxids, and a call that stores an entry stores its return value under   *)
(* the key of its own pair, also when CacheLCA takes effect between the    *)
(* call's cache check and its store.                                       *)
(***************************************************************************)
C22_KeysArePairs ==
    /\ \A k \in DOMAIN lcaCache :
          \E a \in 1..MaxSharedId, b \in 1..MaxSharedId : a # b /\ k = pack2uint32(a, b)
    /\ \A t \in Callers :
          (call[t].pc = "done" /\ call[t].store /\ cacheLCA)
              => /\ pack2uint32(call[t].a, call[t].b) \in DOMAIN lcaCache
                 /\ lcaCache[pack2uint32(call[t].a, call[t].b)] = call[t].ret


(***************************************************************************)
(* C21: no step removes or changes an entry of the cache, LoadMergedNodes  *)
(* included, and with the cache on a call whose pair has an entry returns  *)
(* the value of the entry at its cache check, without walking: the second  *)
(* LCA(a, b) of CacheLCA, LCA(a, b), LoadMergedNodes, LCA(a, b) returns    *)
(* what the first stored, whatever the new merge map would give.           *)
(***************************************************************************)
C21_CacheNeverInvalidated ==
    [][ /\ \A k \in DOMAIN lcaCache : k \in DOMAIN lcaCache' /\ lcaCache'[k] = lcaCache[k]
        /\ \A t \in Callers :
              ( /\ call[t].pc = "check" /\ call'[t] # call[t]
                /\ cacheLCA /\ pack2uint32(call[t].a, call[t].b) \in DOMAIN lcaCache )
              => /\ call'[t].pc = "done" /\ call'[t].itA = 0
                 /\ call'[t].ret = lcaCache[pack2uint32(call[t].a, call[t].b)]
      ]_vars

\* a call answered from the cache after the merge map was loaded, with a value other than
\* the one computed from the store as it is now
C21_Witness ==
    /\ load.status = "ok" /\ load.fn = "LoadMergedNodes" /\ cacheLCA
    /\ Returned(1) /\ call[1].itA = 0
    /\ call[1].ret = lcaCache[pack2uint32(call[1].a, call[1].b)]
    /\ call[1].ret # LCA(call[1].a, call[1].b).ret


(***************************************************************************)
(* C23: LCA(a, b) returns the same with and without a delete set: the call *)
(* made after LoadDeletedNodes returns what the call made before it        *)
(* returned, also for taxids of the delete set that are keys of the parent *)
(* map or of the merge map.                                                *)
(***************************************************************************)
C23_DeleteSetIgnored ==
    ( /\ call[1].pc = "done" /\ call[2].pc = "done"
      /\ call[1].a = call[2].a /\ call[1].b = call[2].b )
    => call[2].ret = call[1].ret

\* both calls returned a taxon for two deleted taxids, one a key of the parent map and one
\* of the merge map
C23_Witness ==
    /\ call[1].pc = "done" /\ call[2].pc = "done" /\ hasDelNodes
    /\ call[2].a \in DelNodes /\ call[2].b \in DelNodes
    /\ IsKey(call[2].a) /\ IsMerged(call[2].b)
    /\ call[2].ret # 0 /\ call[2].ret = call[1].ret


(***************************************************************************)
(* C24: a step of a loader other than its successful return changes no     *)
(* field of the Taxonomy, so a load that fails leaves the merge map, the   *)
(* delete set and their flags as they were and a build that fails yields   *)
(* no Taxonomy; the successful return of LoadMergedNodes or                *)
(* LoadDeletedNodes replaces the map or set by the records of the file     *)
(* alone.                                                                  *)
(***************************************************************************)
C24_LoadsAtomic ==
    [][ /\ load'.status # "ok" =>
              UNCHANGED <<Nodes, DelNodes, MergeNodes, taxid2rankid, ranks, hasRanks,
                          hasDelNodes, hasMergeNodes, rootNode, maxTaxid>>
        /\ (load'.status = "ok" /\ load.fn = "LoadMergedNodes") =>
              /\ MergeNodes' = load.m /\ hasMergeNodes'
              /\ MergeNodes' = RunLoad(Start(load.fn, load.cols, load.file)).m
              /\ UNCHANGED <<DelNodes, hasDelNodes>>
        /\ (load'.status = "ok" /\ load.fn = "LoadDeletedNodes") =>
              /\ DelNodes' = load.d /\ hasDelNodes'
              /\ DelNodes' = RunLoad(Start(load.fn, load.cols, load.file)).d
              /\ UNCHANGED <<MergeNodes, hasMergeNodes>>
      ]_vars

\* LoadMergedNodes failed on its second line, after a record of the first, and the earlier
\* merge map is in place
C24_Witness ==
    /\ load.fn = "LoadMergedNodes" /\ load.status = "error" /\ load.err = "Atoi"
    /\ load.m # EmptyMap
    /\ hasMergeNodes /\ MergeNodes # EmptyMap /\ MergeNodes # load.m

=============================================================================
